---- MODULE Spec2Model ----
(***************************************************************************)
(* Model of blaze::MultTrait (blaze/math/traits/MultTrait.h): the          *)
(* compile-time selection of the result type of T1 * T2.                   *)
(*                                                                         *)
(* A type is a record [base, c, v, ref]: a base type, its const and        *)
(* volatile qualifiers and its reference modifier.  For a reference type   *)
(* c and v qualify the referred-to type, as in C++ (const int& is a        *)
(* reference to const int; the reference itself is never const).           *)
(* The instantiation of MultTrait<T1,T2>::Type is a state machine over a   *)
(* stack of pending instantiations: each step is the compiler selecting    *)
(* the partial specialization (or the base template) for the innermost     *)
(* pending MultTrait<..>, or handing a finished nested Type outwards.      *)
(***************************************************************************)
EXTENDS Naturals, Sequences, FiniteSets, TLC

\* Depth of DynamicVector nesting in the operand types that are enumerated.
MaxVecNest == 1

----------------------------------------------------------------------------
\* Base types.  Every base is a record of the same shape.

Builtin(n) == [kind |-> "builtin", name |-> n, elem |-> <<>>]

Class(n) == [kind |-> "class", name |-> n, elem |-> <<>>]

\* complex<E> and DynamicVector<E,columnVector>: E is a full type.
Complex(e) == [kind |-> "complex", name |-> "", elem |-> <<e>>]

DynamicVector(e) == [kind |-> "dynvec", name |-> "", elem |-> <<e>>]

\* The proxy object an expression-template operator* returns.
MultExpr(l, r) == [kind |-> "expr", name |-> "", elem |-> <<l, r>>]

\* A full type, and the unqualified type of a base.
Ty(b, c, v, r) == [base |-> b, c |-> c, v |-> v, ref |-> r]

Plain(b) == Ty(b, FALSE, FALSE, "none")

\* "No nested Type": the instantiation is ill-formed (a compilation error).
NoType == Ty([kind |-> "error", name |-> "", elem |-> <<>>], FALSE, FALSE, "none")

\* No value yet.
Pending == Ty([kind |-> "pending", name |-> "", elem |-> <<>>], FALSE, FALSE, "none")

----------------------------------------------------------------------------
\* The operand types that are enumerated.

NarrowNames == {"bool", "char", "short"}

BuiltinNames == NarrowNames \cup {"int", "long", "float", "double"}

ComplexElems == {"float", "double"}

\* Quat has operator*(Quat,Quat) returning const Quat; Blob has no operator*.
ClassNames == {"Quat", "Blob"}

VecElemNames == {"int", "double"}

RECURSIVE VecBases(_)
VecBases(n) ==
    IF n = 0 THEN {}
    ELSE IF n = 1 THEN { DynamicVector(Plain(Builtin(e))) : e \in VecElemNames }
    ELSE VecBases(n - 1) \cup { DynamicVector(Plain(b)) : b \in VecBases(n - 1) }

Bases ==
    { Builtin(n) : n \in BuiltinNames }
    \cup { Complex(Plain(Builtin(e))) : e \in ComplexElems }
    \cup { Class(n) : n \in ClassNames }
    \cup VecBases(MaxVecNest)

RefKinds == {"none", "lref", "rref"}

Types == { Ty(b, c, v, r) : b \in Bases, c \in BOOLEAN, v \in BOOLEAN, r \in RefKinds }

----------------------------------------------------------------------------
\* Type traits used by MultTrait.

\* std::is_const / is_volatile look at the top level only: a reference is
\* neither const nor volatile, whatever it refers to.
IsConst(t) == t.ref = "none" /\ t.c

IsVolatile(t) == t.ref = "none" /\ t.v

IsReference(t) == t.ref # "none"

\* std::is_fundamental: cv-qualified built-in types are built-in, references
\* to them are not.
IsBuiltin(t) == t.ref = "none" /\ t.base.kind = "builtin"

\* std::decay on a non-array, non-function type: remove the reference, then
\* the cv-qualifiers.
Decay_(t) == Ty(t.base, FALSE, FALSE, "none")

\* Matching of a template argument against the pattern complex<T>: the
\* argument must be the class type itself, with no qualifier or reference.
IsComplexPattern(t) == t = Plain(t.base) /\ t.base.kind = "complex"

IsDynVecPattern(t) == t = Plain(t.base) /\ t.base.kind = "dynvec"

----------------------------------------------------------------------------
\* The host language's arithmetic.

\* Integral promotion: the narrow integer types become int.
Promote(n) == IF n \in NarrowNames THEN "int" ELSE n

ConvRank(n) ==
    CASE n = "int" -> 1
      [] n = "long" -> 2
      [] n = "float" -> 3
      [] n = "double" -> 4
      [] OTHER -> 0

\* Usual arithmetic conversions of two arithmetic operands of a binary
\* operator: both are promoted, the higher conversion rank wins.
UsualArith(a, b) ==
    IF ConvRank(Promote(a)) >= ConvRank(Promote(b)) THEN Promote(a) ELSE Promote(b)

\* decltype( std::declval<a>() * std::declval<b>() ) for decayed a and b:
\*  - two arithmetic types: the usual arithmetic conversions;
\*  - std::complex: operator*(complex<T>, complex<T>), (complex<T>, T) and
\*    (T, complex<T>) deduce one T from both operands, so the value types
\*    must be identical;
\*  - Quat: operator*(Quat, Quat) returns const Quat;
\*  - DynamicVector: operator* with a vector or a scalar returns an
\*    expression-template proxy;
\*  - anything else has no operator*.
OperatorMult(a, b) ==
    LET x == a.base
        y == b.base
    IN  CASE x.kind = "builtin" /\ y.kind = "builtin" ->
                Plain(Builtin(UsualArith(x.name, y.name)))
          [] x.kind = "complex" /\ y.kind = "complex" ->
                IF x = y THEN Plain(x) ELSE NoType
          [] x.kind = "complex" /\ y.kind = "builtin" ->
                IF x.elem[1] = Plain(y) THEN Plain(x) ELSE NoType
          [] x.kind = "builtin" /\ y.kind = "complex" ->
                IF y.elem[1] = Plain(x) THEN Plain(y) ELSE NoType
          [] x.kind = "class" /\ y.kind = "class" ->
                IF x.name = "Quat" /\ y.name = "Quat"
                THEN Ty(x, TRUE, FALSE, "none") ELSE NoType
          [] \/ x.kind = "dynvec" /\ y.kind \in {"dynvec", "builtin"}
             \/ x.kind = "builtin" /\ y.kind = "dynvec" ->
                Plain(MultExpr(Plain(x), Plain(y)))
          [] OTHER -> NoType

\* Implicit conversion between two different decayed types, as far as the
\* conditional operator needs it: an arithmetic value converts to complex<T>
\* through complex(T re, T im = T()); complex<float> converts to
\* complex<double>, the narrowing direction is explicit.
ImplicitlyConvertible(a, b) ==
    LET x == a.base
        y == b.base
    IN  \/ x.kind = "builtin" /\ y.kind = "builtin"
        \/ x.kind = "builtin" /\ y.kind = "complex"
        \/ /\ x.kind = "complex" /\ y.kind = "complex"
           /\ ConvRank(x.elem[1].base.name) <= ConvRank(y.elem[1].base.name)

\* CommonType_<A,B>, std::common_type: both arguments are decayed, the result
\* is the decayed type of (false ? declval<A>() : declval<B>()).
CommonType_(t1, t2) ==
    LET a == Decay_(t1)
        b == Decay_(t2)
    IN  IF a = b THEN a
        ELSE IF a.base.kind = "builtin" /\ b.base.kind = "builtin"
             THEN Plain(Builtin(UsualArith(a.base.name, b.base.name)))
        ELSE IF ImplicitlyConvertible(a, b) /\ ~ImplicitlyConvertible(b, a) THEN b
        ELSE IF ImplicitlyConvertible(b, a) /\ ~ImplicitlyConvertible(a, b) THEN a
        ELSE NoType

----------------------------------------------------------------------------
\* The MultTrait class template: its partial specializations and its base
\* template.

\* Variant: the complex/built-in specialization without its EnableIf_
\* restriction, MultTrait< complex<T1>, T2 >.
MatchComplexBuiltin_Unrestricted(t1, t2) == IsComplexPattern(t1)

\* MultTrait< complex<T1>, T2, EnableIf_< IsBuiltin<T2> > >
MatchComplexBuiltin(t1, t2) == IsComplexPattern(t1) /\ IsBuiltin(t2)

\* MultTrait< T1, complex<T2>, EnableIf_< IsBuiltin<T1> > >
MatchBuiltinComplex(t1, t2) == IsBuiltin(t1) /\ IsComplexPattern(t2)

\* Variant: the complex/complex specialization written for one value type,
\* MultTrait< complex<T>, complex<T> >.
MatchComplexComplex_SameValueType(t1, t2) ==
    IsComplexPattern(t1) /\ IsComplexPattern(t2) /\ t1 = t2

\* MultTrait< complex<T1>, complex<T2> >
MatchComplexComplex(t1, t2) == IsComplexPattern(t1) /\ IsComplexPattern(t2)

\* The custom specialization of the documentation, present when registered:
\* MultTrait< DynamicVector<T1,columnVector>, DynamicVector<T2,columnVector> >
MatchDynamicVector(t1, t2) == IsDynVecPattern(t1) /\ IsDynVecPattern(t2)

\* The partial specializations whose pattern the argument pair matches.
Matching(t1, t2, reg) ==
    { r \in {"ComplexBuiltin"} : MatchComplexBuiltin(t1, t2) }
    \cup { r \in {"BuiltinComplex"} : MatchBuiltinComplex(t1, t2) }
    \cup { r \in {"ComplexComplex"} : MatchComplexComplex(t1, t2) }
    \cup { r \in {"DynamicVector"} : reg /\ MatchDynamicVector(t1, t2) }

\* Variant: CommonType_< T1, T2 > with the value type of the complex
\* instead of complex<T1>.
ComplexBuiltinType_ValueType(t1, t2) == CommonType_(t1.base.elem[1], t2)

\* Type of the complex/built-in specialization.
ComplexBuiltinType(t1, t2) == CommonType_(t1, t2)

\* Variant: CommonType_< T1, T2 > with the value type of the complex
\* instead of complex<T2>.
BuiltinComplexType_ValueType(t1, t2) == CommonType_(t1, t2.base.elem[1])

\* Type of the built-in/complex specialization.
BuiltinComplexType(t1, t2) == CommonType_(t1, t2)

\* Type of the complex/complex specialization.
ComplexComplexType(t1, t2) == CommonType_(t1, t2)

\* Base template: Type1 and Type2.
Type1(t1) == Decay_(t1)

Type2(t2) == Decay_(t2)

\* Variant: the condition without IsReference<T2>.
Qualified_NoReferenceT2(t1, t2) ==
    \/ IsConst(t1) \/ IsVolatile(t1) \/ IsReference(t1)
    \/ IsConst(t2) \/ IsVolatile(t2)

\* Variant: the condition without IsVolatile<T1>.
Qualified_NoVolatileT1(t1, t2) ==
    \/ IsConst(t1) \/ IsReference(t1)
    \/ IsConst(t2) \/ IsVolatile(t2) \/ IsReference(t2)

\* Variant: the condition with the IsConst tests only.
Qualified_ConstOnly(t1, t2) == IsConst(t1) \/ IsConst(t2)

\* Base template: the condition of If_< Or< IsConst<T1>, ... >, ..., ... >.
Qualified(t1, t2) ==
    \/ IsConst(t1) \/ IsVolatile(t1) \/ IsReference(t1)
    \/ IsConst(t2) \/ IsVolatile(t2) \/ IsReference(t2)

\* Variant: MultType as the common type of the operands.
MultType_CommonType(t1, t2) == CommonType_(Type1(t1), Type2(t2))

\* Variant: MultType with the left operand type as default when the
\* operands have no operator*.
MultType_Default(t1, t2) ==
    IF OperatorMult(Type1(t1), Type2(t2)) = NoType
    THEN Type1(t1)
    ELSE OperatorMult(Type1(t1), Type2(t2))

\* Variant: MultType with the decltype decayed.
MultType_Decayed(t1, t2) == Decay_(OperatorMult(Type1(t1), Type2(t2)))

\* Base template: MultType::Type.
MultType(t1, t2) == OperatorMult(Type1(t1), Type2(t2))

\* DynamicVector< typename MultTrait<T1,T2>::Type, columnVector > around the
\* element type's trait result; ill-formed when that is.
WrapDynamicVector(e) == IF e = NoType THEN NoType ELSE Plain(DynamicVector(e))

\* MultTrait_<T1,T2> = typename MultTrait<T1,T2>::Type as a type-level
\* function.  reg: the custom DynamicVector specialization is registered.
\* Two matching partial specializations, neither more specialized than the
\* other, make the instantiation ambiguous (ill-formed).
RECURSIVE MultTrait_(_, _, _)
MultTrait_(t1, t2, reg) ==
    LET m == Matching(t1, t2, reg)
    IN  IF Cardinality(m) > 1 THEN NoType
        ELSE IF m = {"ComplexBuiltin"} THEN ComplexBuiltinType(t1, t2)
        ELSE IF m = {"BuiltinComplex"} THEN BuiltinComplexType(t1, t2)
        ELSE IF m = {"ComplexComplex"} THEN ComplexComplexType(t1, t2)
        ELSE IF m = {"DynamicVector"}
             THEN WrapDynamicVector(MultTrait_(t1.base.elem[1], t2.base.elem[1], reg))
        ELSE IF Qualified(t1, t2) THEN MultTrait_(Type1(t1), Type2(t2), reg)
        ELSE MultType(t1, t2)

----------------------------------------------------------------------------
\* The instantiation of MultTrait<T1,T2>::Type, step by step.

VARIABLES
    T1,       \* the left-hand side operand type of the requested trait
    T2,       \* the right-hand side operand type
    ext,      \* TRUE: the custom DynamicVector specialization is registered
    stack,    \* pending instantiations MultTrait<t1,t2>, innermost last
    ret,      \* the nested Type the innermost finished instantiation yields
    trace,    \* the instantiations made so far and the rule each selected
    pc,       \* "inst": instantiating, "done": MultTrait<T1,T2>::Type settled
    result    \* MultTrait<T1,T2>::Type, NoType when ill-formed

vars == <<T1, T2, ext, stack, ret, trace, pc, result>>

Frame(t1, t2, via) == [t1 |-> t1, t2 |-> t2, via |-> via]

Top == stack[Len(stack)]

Init ==
    /\ T1 \in Types
    /\ T2 \in Types
    /\ ext \in BOOLEAN
    /\ stack = << Frame(T1, T2, "top") >>
    /\ ret = Pending
    /\ trace = << >>
    /\ pc = "inst"
    /\ result = Pending

\* The innermost pending instantiation has not selected its template yet.
Selecting == pc = "inst" /\ ret = Pending /\ stack # << >>

Select(rule) == trace' = Append(trace, [t1 |-> Top.t1, t2 |-> Top.t2, rule |-> rule])

\* The complex/built-in specialization is selected; Type = CommonType_.
ComplexBuiltin ==
    /\ Selecting
    /\ Matching(Top.t1, Top.t2, ext) = {"ComplexBuiltin"}
    /\ Select("ComplexBuiltin")
    /\ ret' = ComplexBuiltinType(Top.t1, Top.t2)
    /\ UNCHANGED <<T1, T2, ext, stack, pc, result>>

\* The built-in/complex specialization is selected.
BuiltinComplex ==
    /\ Selecting
    /\ Matching(Top.t1, Top.t2, ext) = {"BuiltinComplex"}
    /\ Select("BuiltinComplex")
    /\ ret' = BuiltinComplexType(Top.t1, Top.t2)
    /\ UNCHANGED <<T1, T2, ext, stack, pc, result>>

\* The complex/complex specialization is selected.
ComplexComplex ==
    /\ Selecting
    /\ Matching(Top.t1, Top.t2, ext) = {"ComplexComplex"}
    /\ Select("ComplexComplex")
    /\ ret' = ComplexComplexType(Top.t1, Top.t2)
    /\ UNCHANGED <<T1, T2, ext, stack, pc, result>>

\* The registered DynamicVector specialization is selected: its Type names
\* MultTrait<T1,T2>::Type of the element types, which is instantiated next.
CustomDynamicVector ==
    /\ Selecting
    /\ Matching(Top.t1, Top.t2, ext) = {"DynamicVector"}
    /\ Select("DynamicVector")
    /\ stack' = Append(stack, Frame(Top.t1.base.elem[1], Top.t2.base.elem[1], "elem"))
    /\ UNCHANGED <<T1, T2, ext, ret, pc, result>>

\* The base template is selected and an operand is const, volatile or a
\* reference: If_ selects MultTrait<Type1,Type2>, whose Type is instantiated
\* next.  MultType is not completed.
FallbackRecurse ==
    /\ Selecting
    /\ Matching(Top.t1, Top.t2, ext) = {}
    /\ Qualified(Top.t1, Top.t2)
    /\ Select("Recurse")
    /\ stack' = Append(stack, Frame(Type1(Top.t1), Type2(Top.t2), "decay"))
    /\ UNCHANGED <<T1, T2, ext, ret, pc, result>>

\* The base template is selected for an unqualified pair: If_ selects
\* MultType, whose Type is the decltype of the product.
FallbackMultType ==
    /\ Selecting
    /\ Matching(Top.t1, Top.t2, ext) = {}
    /\ ~Qualified(Top.t1, Top.t2)
    /\ Select("MultType")
    /\ ret' = MultType(Top.t1, Top.t2)
    /\ UNCHANGED <<T1, T2, ext, stack, pc, result>>

\* The innermost instantiation has its Type: it is handed to the
\* instantiation that named it, or is the requested MultTrait<T1,T2>::Type.
Return ==
    /\ pc = "inst"
    /\ ret # Pending
    /\ stack # << >>
    /\ stack' = SubSeq(stack, 1, Len(stack) - 1)
    /\ IF Top.via = "top"
       THEN /\ pc' = "done"
            /\ result' = ret
            /\ ret' = ret
       ELSE /\ ret' = IF Top.via = "elem" THEN WrapDynamicVector(ret) ELSE ret
            /\ UNCHANGED <<pc, result>>
    /\ UNCHANGED <<T1, T2, ext, trace>>

Next ==
    \/ ComplexBuiltin
    \/ BuiltinComplex
    \/ ComplexComplex
    \/ CustomDynamicVector
    \/ FallbackRecurse
    \/ FallbackMultType
    \/ Return

Spec == Init /\ [][Next]_vars

\* The compiler instantiates until the requested Type is settled.
FairSpec == Spec /\ WF_vars(Next)

----------------------------------------------------------------------------
\* The resolver as the specification describes it: normalize both operands,
\* then match the rules a, b, c, d in this order, the first match winning.

Normalize(t) == Plain(t.base)

IsComplexOf(t) == t.base.kind = "complex"

IsBuiltinScalar(t) == t.base.kind = "builtin"

SpecRule(t1, t2) ==
    LET n1 == Normalize(t1)
        n2 == Normalize(t2)
    IN  IF IsComplexOf(n1) /\ IsBuiltinScalar(n2) THEN "a"
        ELSE IF IsBuiltinScalar(n1) /\ IsComplexOf(n2) THEN "b"
        ELSE IF IsComplexOf(n1) /\ IsComplexOf(n2) THEN "c"
        ELSE "d"

SpecResolve(t1, t2) ==
    LET n1 == Normalize(t1)
        n2 == Normalize(t2)
    IN  IF SpecRule(t1, t2) = "d" THEN OperatorMult(n1, n2) ELSE CommonType_(n1, n2)

\* The rule letter of a selected template.
RuleLetter(rule) ==
    CASE rule = "ComplexBuiltin" -> "a"
      [] rule = "BuiltinComplex" -> "b"
      [] rule = "ComplexComplex" -> "c"
      [] rule = "MultType" -> "d"
      [] OTHER -> rule

----------------------------------------------------------------------------
\* Vocabulary of the properties.

Done == pc = "done"

\* The operand carries const, volatile or a reference modifier.
HasQualifier(t) == t.c \/ t.v \/ t.ref # "none"

Unqualified(t) == ~HasQualifier(t)

KindOf(t) == t.base.kind

\* Both operands are unqualified built-in scalar types.
ScalarPair == Unqualified(T1) /\ Unqualified(T2) /\ KindOf(T1) = "builtin" /\ KindOf(T2) = "builtin"

\* One operand is an unqualified complex, the other an unqualified scalar.
ScalarComplexPair ==
    /\ Unqualified(T1) /\ Unqualified(T2)
    /\ {KindOf(T1), KindOf(T2)} = {"complex", "builtin"}

ComplexPair == Unqualified(T1) /\ Unqualified(T2) /\ KindOf(T1) = "complex" /\ KindOf(T2) = "complex"

\* The normalized pair matches the pattern of the custom specialization.
VectorPair == KindOf(T1) = "dynvec" /\ KindOf(T2) = "dynvec"

Rules == { trace[i].rule : i \in 1 .. Len(trace) }

LastRule == trace[Len(trace)].rule

ComplexOf(n) == Plain(Complex(Plain(Builtin(n))))

Scalar(n) == Plain(Builtin(n))

----------------------------------------------------------------------------
\* C1: qualifier invariance.  Whatever const, volatile or reference modifier
\* the operands carry, MultTrait<T1,T2>::Type is the Type of the pair with
\* all of them removed, and is ill-formed exactly when that one is.
C1_QualifierInvariance ==
    Done => result = MultTrait_(Normalize(T1), Normalize(T2), ext)

\* A volatile left operand and a reference to const right operand, resolved
\* through the fallback's recursion into the complex/complex specialization.
C1_Witness ==
    /\ Done
    /\ IsVolatile(T1) /\ T2.ref = "lref" /\ T2.c
    /\ Rules = {"Recurse", "ComplexComplex"}
    /\ result = ComplexOf("double")

C3_ScalarComplexSymmetry ==
    (Done /\ ScalarComplexPair) =>
        /\ result = CommonType_(T1, T2)
        /\ result = MultTrait_(T2, T1, ext)
        /\ result = IF KindOf(T1) = "complex" THEN T1 ELSE T2
        /\ LastRule = IF KindOf(T1) = "complex" THEN "ComplexBuiltin" ELSE "BuiltinComplex"

\* resolve(int, complex<float>) through the built-in/complex specialization.
C3_Witness ==
    /\ Done
    /\ T1 = Scalar("int") /\ T2 = ComplexOf("float")
    /\ LastRule = "BuiltinComplex"
    /\ result = ComplexOf("float")

\* C4: two complex types resolve to their common type, through the
\* complex/complex specialization alone; MultType is never completed.
C4_ComplexComplex ==
    (Done /\ ComplexPair) =>
        /\ result = CommonType_(T1, T2)
        /\ Rules = {"ComplexComplex"}
        /\ Len(trace) = 1
        /\ (T1 = ComplexOf("float") /\ T2 = ComplexOf("double")) => result = ComplexOf("double")

C4_Witness ==
    /\ Done
    /\ T1 = ComplexOf("float") /\ T2 = ComplexOf("double")
    /\ result = ComplexOf("double")

\* C5: when no specialization matches the normalized pair and the normalized
\* types have no operator*, the trait has no Type, whatever the qualifiers.
C5_Unresolvable ==
    (/\ Done
     /\ Matching(Normalize(T1), Normalize(T2), ext) = {}
     /\ OperatorMult(Normalize(T1), Normalize(T2)) = NoType)
        => result = NoType

\* A const Blob and a reference to Blob.
C5_Witness ==
    /\ Done
    /\ T1 = Ty(Class("Blob"), TRUE, FALSE, "none")
    /\ T2 = Ty(Class("Blob"), FALSE, FALSE, "lref")
    /\ LastRule = "MultType"
    /\ result = NoType

\* C6: rule uniqueness.  Every pair that is instantiated, qualified or not,
\* matches at most one partial specialization; the base template is selected
\* exactly when none matches, a specialization exactly when it is the one
\* that matches.
C6_RuleUniqueness ==
    /\ Cardinality(Matching(T1, T2, ext)) <= 1
    /\ \A f \in { stack[i] : i \in 1 .. Len(stack) } :
            Cardinality(Matching(f.t1, f.t2, ext)) <= 1
    /\ \A e \in { trace[i] : i \in 1 .. Len(trace) } :
            LET m == Matching(e.t1, e.t2, ext)
            IN  /\ Cardinality(m) <= 1
                /\ m = {} <=> e.rule \in {"Recurse", "MultType"}
                /\ m # {} => m = {e.rule}
                /\ (MatchComplexComplex(e.t1, e.t2) => e.rule = "ComplexComplex")
                /\ (KindOf(e.t1) = "complex" /\ IsBuiltin(e.t2) /\ Unqualified(e.t1))
                        => e.rule = "ComplexBuiltin"

\* complex<float> with a const volatile int: only the complex/built-in
\* specialization matches, directly on the qualified pair.
C6_Witness ==
    /\ Done
    /\ T1 = ComplexOf("float")
    /\ T2 = Ty(Builtin("int"), TRUE, TRUE, "none")
    /\ Len(trace) = 1
    /\ LastRule = "ComplexBuiltin"

\* C7: an unqualified pair that matches no specialization and has an
\* operator* resolves to exactly the type the operator returns, by one
\* completion of MultType.
C7_OperatorDeduction ==
    (/\ Done
     /\ Unqualified(T1) /\ Unqualified(T2)
     /\ Matching(T1, T2, ext) = {}
     /\ OperatorMult(T1, T2) # NoType)
        => /\ result = OperatorMult(T1, T2)
           /\ Len(trace) = 1
           /\ LastRule = "MultType"

\* Quat * Quat, whose operator returns const Quat.
C7_Witness ==
    /\ Done
    /\ T1 = Plain(Class("Quat")) /\ T2 = Plain(Class("Quat"))
    /\ result = Ty(Class("Quat"), TRUE, FALSE, "none")

\* C8: without custom specializations the instantiation selects, for the
\* normalized pair, the rule the specification's algorithm selects, and
\* yields the same type or fails with it.
C8_RefinesSpecAlgorithm ==
    (Done /\ ~ext) =>
        /\ RuleLetter(LastRule) = SpecRule(T1, T2)
        /\ result = SpecResolve(T1, T2)

\* resolve(const int&, double) is double, by rule d after the recursion.
C8_Witness ==
    /\ Done /\ ~ext
    /\ T1 = Ty(Builtin("int"), TRUE, FALSE, "lref") /\ T2 = Scalar("double")
    /\ Len(trace) = 2
    /\ SpecRule(T1, T2) = "d"
    /\ result = Scalar("double")

\* The number of instantiations in which the base template chose the
\* recursion, and in which it completed MultType.
Count(rule) == Cardinality({ i \in 1 .. Len(trace) : trace[i].rule = rule })

C9_Step ==
    /\ \A i \in 1 .. Len(trace) :
        LET e == trace[i]
        IN  /\ (e.rule \in {"Recurse", "MultType"} /\ (HasQualifier(e.t1) \/ HasQualifier(e.t2)))
                    => e.rule = "Recurse"
            /\ (e.rule \in {"Recurse", "MultType"} /\ Unqualified(e.t1) /\ Unqualified(e.t2))
                    => e.rule = "MultType"
            /\ (e.rule = "Recurse" /\ i < Len(trace))
                    => /\ trace[i + 1].t1 = Normalize(e.t1)
                       /\ trace[i + 1].t2 = Normalize(e.t2)
                       /\ trace[i + 1].rule # "Recurse"
            /\ \A j \in 1 .. Len(trace) : (i # j) => <<e.t1, e.t2>> # <<trace[j].t1, trace[j].t2>>
    /\ \A i \in 1 .. Len(stack) :
            stack[i].via = "decay" => (Unqualified(stack[i].t1) /\ Unqualified(stack[i].t2))
    /\ Count("Recurse") <= 1
    /\ Count("MultType") <= 1
    /\ Done => (Count("Recurse") = 1 <=> (Len(trace) >= 1 /\ trace[1].rule = "Recurse"))

\* C9: the instantiation terminates; the base template recurses at most
\* once, on the decayed pair, only for a qualified pair and then without
\* completing MultType; for an unqualified pair it completes MultType only.
C9_TerminatesOneRecursion == [](C9_Step) /\ <>Done

\* A qualified pair settled after one recursion and one MultType.
C9_Witness ==
    /\ Done
    /\ HasQualifier(T1) /\ HasQualifier(T2)
    /\ Count("Recurse") = 1 /\ Count("MultType") = 1
    /\ Len(trace) = 2

\* C10: with the custom DynamicVector specialization registered, every pair
\* whose normalized form is two DynamicVectors resolves to the
\* specialization's Type, DynamicVector of the element types' trait Type;
\* every other pair resolves as without the specialization.
C10_Extension ==
    (Done /\ ext) =>
        IF VectorPair
        THEN /\ "DynamicVector" \in Rules
             /\ result = WrapDynamicVector(
                    MultTrait_(T1.base.elem[1], T2.base.elem[1], ext))
             /\ (T1.base = DynamicVector(Scalar("int")) /\ T2.base = DynamicVector(Scalar("double")))
                    => result = Plain(DynamicVector(Scalar("double")))
             /\ result # MultTrait_(T1, T2, FALSE)
        ELSE result = MultTrait_(T1, T2, FALSE)

\* const DynamicVector<int>& and DynamicVector<double>&& reach the custom
\* specialization through the recursion of the base template.
C10_Witness ==
    /\ Done /\ ext
    /\ T1 = Ty(DynamicVector(Scalar("int")), TRUE, FALSE, "lref")
    /\ T2 = Ty(DynamicVector(Scalar("double")), FALSE, FALSE, "rref")
    /\ trace[1].rule = "Recurse" /\ trace[2].rule = "DynamicVector"
    /\ result = Plain(DynamicVector(Scalar("double")))

====
